---- MODULE Spec2Model ----
(***************************************************************************)
(* Verification model of the shamsi-calendar date engine (package          *)
(* calendar) and of the scal command (package cmd).                        *)
(*                                                                         *)
(* The engine is a set of pure functions over integer triples; each is an  *)
(* operator here, computed step by step as the Go code computes it, with   *)
(* Go's truncating integer division and remainder.  The callers of the     *)
(* engine are modelled as small state machines that draw an input, apply   *)
(* the functions and keep the results.                                     *)
(***************************************************************************)
EXTENDS Integers, Sequences, FiniteSets, TLC

VARIABLES
    pc,            \* position of the caller
    gdate,         \* a Gregorian date [y, m, d] given to the engine
    jdate,         \* a Jalali date [Year, Month, Day]
    gback,         \* result of JalaliToGregorian
    jback,         \* result of GregorianToJalali applied to gback, or to the
                   \* day after gdate
    weekday,       \* result of GetDayOfWeek
    days,          \* result of GetDaysInMonth
    leap,          \* result of IsJalaliLeapYear
    calendar,      \* result of GetMonthCalendar
    windowStart,   \* first year of a window of consecutive Jalali years
    leapCount,     \* number of leap years counted in the window
    yearFlag,      \* cmd: --year
    monthFlag,     \* cmd: --month
    threeFlag,     \* cmd: --three
    fullYearFlag,  \* cmd: --full-year
    yearFlagSet,   \* cmd: cmd.Flags().Changed("year")
    monthFlagSet,  \* cmd: cmd.Flags().Changed("month")
    given,         \* cmd: the flag values as parsed from the command line
    now,           \* cmd: the Gregorian date time.Now() returns
    err,           \* cmd: the error runCalendar returns
    displayed      \* cmd: the (year, month) pairs handed to GetMonthCalendar

vars == <<pc, gdate, jdate, gback, jback, weekday, days, leap, calendar,
          windowStart, leapCount, yearFlag, monthFlag, threeFlag,
          fullYearFlag, yearFlagSet, monthFlagSet, given, now, err,
          displayed>>

engineVars == <<gdate, jdate, gback, jback, weekday, days, leap, calendar>>
windowVars == <<windowStart, leapCount>>
cmdVars == <<yearFlag, monthFlag, threeFlag, fullYearFlag, yearFlagSet,
             monthFlagSet, given, now, err, displayed>>

None == "none"

-----------------------------------------------------------------------------
(* Bounds of the explored inputs.                                          *)

FirstGYear == 2016
LastGYear == 2030

FirstJYear == 1395
LastJYear == 1410

FirstCalYear == 1
LastCalYear == 1700

LastWindowYear == 3950

FirstDayAfterYear == 1795
LastDayAfterYear == 1802

-----------------------------------------------------------------------------
(* Constants of the engine.                                                *)

gregorianOffset == 621
julianDayOffset == 79
cycle33Years == 12053
cycle4Years == 1461
cycle400Years == 146097
cycle100Years == 36524
cycle4YearsIn100 == 1461
firstHalfDays == 186
esfandMonth == 12
leapYearIndicator == 0

daysInMonth == <<31, 31, 31, 31, 31, 31, 30, 30, 30, 30, 30, 29>>

breaks == <<-61, 9, 38, 199, 426, 686, 756, 818, 1111, 1181, 1210, 1635,
            2060, 2097, 2192, 2262, 2324, 2394, 2456, 3178>>

gregorianMonthOffsets ==
    <<0, 31, 59, 90, 120, 151, 181, 212, 243, 273, 304, 334>>

gregorianMonthOffsetsLeap ==
    <<0, 31, 60, 91, 121, 152, 182, 213, 244, 274, 305, 335>>

-----------------------------------------------------------------------------
(* Go integer arithmetic: / truncates toward zero, % takes the sign of     *)
(* the dividend.                                                           *)

Abs(x) == IF x < 0 THEN -x ELSE x

div(a, b) ==
    LET q == Abs(a) \div Abs(b)
    IN  IF (a < 0) # (b < 0) THEN -q ELSE q

rem(a, b) == a - b * div(a, b)

isGregorianLeapYear(year) ==
    (rem(year, 4) = 0 /\ rem(year, 100) # 0) \/ rem(year, 400) = 0

-----------------------------------------------------------------------------
(* jalCal: the break-table walk.  breaksLoop is the for loop of jalCal,    *)
(* i being the Go index (breaks[i] is breaks[i + 1] here); it yields the   *)
(* values of leapJ, jp and jump the loop leaves behind.                    *)

RECURSIVE breaksLoop(_, _, _, _, _)
breaksLoop(jy, i, leapJ, jp, jump) ==
    IF i >= Len(breaks)
    THEN [leapJ |-> leapJ, jp |-> jp, jump |-> jump]
    ELSE LET jm == breaks[i + 1]
             jump2 == jm - jp
         IN  IF jy < jm
             THEN [leapJ |-> leapJ, jp |-> jp, jump |-> jump2]
             ELSE breaksLoop(jy, i + 1,
                             leapJ + div(jump2, 33) * 8 + div(rem(jump2, 33), 4),
                             jm, jump2)

\* jalCalLeap with the 33-year cycle left out: every fourth year is leap
jalCalLeap_FourYearRule(n, jump) ==
    LET n2 == IF jump - n < 6
              THEN n - jump + div(jump + 4, 33) * 33
              ELSE n
        l == rem(n2, 4)
    IN  IF l = -1 THEN 4 ELSE l

jalCalLeap(n, jump) ==
    LET n2 == IF jump - n < 6
              THEN n - jump + div(jump + 4, 33) * 33
              ELSE n
        l == rem(rem(n2 + 1, 33) - 1, 4)
    IN  IF l = -1 THEN 4 ELSE l

jalCal(jy) ==
    LET gy == jy + gregorianOffset
        w == breaksLoop(jy, 1, -14, breaks[1], 0)
        n == jy - w.jp
        leapJ1 == w.leapJ + div(n, 33) * 8 + div(rem(n, 33) + 3, 4)
        leapJ == IF rem(w.jump, 33) = 4 /\ w.jump - n = 4
                 THEN leapJ1 + 1 ELSE leapJ1
        leapG == div(gy, 4) - div((div(gy, 100) + 1) * 3, 4) - 150
        march == 20 + leapJ - leapG
    IN  [leap |-> jalCalLeap(n, w.jump), gy |-> gy, march |-> march]

IsJalaliLeapYear(jy) == jalCal(jy).leap = leapYearIndicator

\* GetDaysInMonth without the leap-year case of Esfand
GetDaysInMonth_TableOnly(year, month) == daysInMonth[month]

GetDaysInMonth(year, month) ==
    IF month = esfandMonth /\ IsJalaliLeapYear(year)
    THEN 30
    ELSE daysInMonth[month]

-----------------------------------------------------------------------------
(* Gregorian -> Jalali.                                                    *)

\* calculateGregorianDayNumber without the leap day of the current year
calculateGregorianDayNumber_NoLeapDay(gy, gm, gd) ==
    LET gy2 == gy - 1600
        d0 == 365 * gy2 + div(gy2 + 3, 4) - div(gy2 + 99, 100)
                + div(gy2 + 399, 400)
    IN  d0 + gregorianMonthOffsets[gm] + (gd - 1)

calculateGregorianDayNumber(gy, gm, gd) ==
    LET gy2 == gy - 1600
        gm2 == gm - 1
        gd2 == gd - 1
        d0 == 365 * gy2 + div(gy2 + 3, 4) - div(gy2 + 99, 100)
                + div(gy2 + 399, 400)
        d1 == d0 + gregorianMonthOffsets[gm2 + 1] + gd2
    IN  IF gm > 2 /\ isGregorianLeapYear(gy) THEN d1 + 1 ELSE d1

GregorianToJalali(gy, gm, gd) ==
    LET gDayNo == calculateGregorianDayNumber(gy, gm, gd)
        jDayNo0 == gDayNo - julianDayOffset
        jNp == div(jDayNo0, cycle33Years)
        jDayNo1 == rem(jDayNo0, cycle33Years)
        jy1 == 979 + 33 * jNp + 4 * div(jDayNo1, cycle4Years)
        jDayNo2 == rem(jDayNo1, cycle4Years)
        jy == IF jDayNo2 >= 366 THEN jy1 + div(jDayNo2 - 1, 365) ELSE jy1
        jDayNo == IF jDayNo2 >= 366 THEN rem(jDayNo2 - 1, 365) ELSE jDayNo2
    IN  IF jDayNo < firstHalfDays
        THEN [Year |-> jy, Month |-> 1 + div(jDayNo, 31),
              Day |-> 1 + rem(jDayNo, 31)]
        ELSE [Year |-> jy, Month |-> 7 + div(jDayNo - firstHalfDays, 30),
              Day |-> 1 + rem(jDayNo - firstHalfDays, 30)]

-----------------------------------------------------------------------------
(* Jalali -> Gregorian.                                                    *)

\* the loop "for i := 0; i < jm-1; i++" that adds the months before jm
RECURSIVE monthsBefore(_, _, _)
monthsBefore(jy, jm, i) ==
    IF i >= jm - 1
    THEN 0
    ELSE (IF i = esfandMonth - 1 /\ IsJalaliLeapYear(jy)
          THEN 30
          ELSE daysInMonth[i + 1])
         + monthsBefore(jy, jm, i + 1)

\* the loop "for i := 11; i >= 0; i--" that finds month and day
RECURSIVE findMonth(_, _, _)
findMonth(gDayNo, monthOffsets, i) ==
    IF i < 0
    THEN [m |-> 0, d |-> 0]
    ELSE IF gDayNo >= monthOffsets[i + 1]
         THEN [m |-> i + 1, d |-> gDayNo - monthOffsets[i + 1] + 1]
         ELSE findMonth(gDayNo, monthOffsets, i - 1)

\* lines 169-213: the day count decomposed into year, month and day
dayNumberToGregorian(n) ==
    LET gy0 == 400 * div(n, cycle400Years)
        g0 == rem(n, cycle400Years)
        big == g0 >= 36525
        g1 == rem(g0 - 1, cycle100Years)
        gy1 == IF big THEN gy0 + 100 * div(g0 - 1, cycle100Years) ELSE gy0
        g2 == IF big THEN (IF g1 >= 365 THEN g1 + 1 ELSE g1) ELSE g0
        leap1 == ~(big /\ g1 < 365)
        gy2 == gy1 + 4 * div(g2, cycle4YearsIn100)
        g3 == rem(g2, cycle4YearsIn100)
        late == g3 >= 366
        leap2 == IF late THEN FALSE ELSE leap1
        gy3 == IF late THEN gy2 + div(g3 - 1, 365) ELSE gy2
        g4 == IF late THEN rem(g3 - 1, 365) ELSE g3
        md == findMonth(g4,
                        IF leap2 THEN gregorianMonthOffsetsLeap
                                 ELSE gregorianMonthOffsets,
                        11)
    IN  [y |-> gy3, m |-> md.m, d |-> md.d]

JalaliToGregorian(jy0, jm, jd) ==
    LET gy == IF jy0 > 979 THEN 1600 ELSE 621
        jy == IF jy0 > 979 THEN jy0 - 979 ELSE jy0
        jCal == jalCal(jy)
        days0 == 365 * jy + div(jy, 33) * 8 + div(rem(jy, 33) + 3, 4)
        days1 == days0 + monthsBefore(jy, jm, 0) + (jd - 1)
    IN  dayNumberToGregorian(gy + jCal.march + days1)

-----------------------------------------------------------------------------
(* Day of week.  GetDayOfWeek hands the Gregorian triple to time.Date and  *)
(* reads its Weekday (Sunday = 0).  time.Date normalises a month outside   *)
(* 1..12 into the neighbouring years and counts the day of the month on    *)
(* from the first of the month; the weekday is the day count since         *)
(* Monday 0001-01-01 taken modulo 7.                                       *)

daysBeforeYear(y) ==
    365 * (y - 1) + ((y - 1) \div 4) - ((y - 1) \div 100) + ((y - 1) \div 400)

timeDateWeekday(year, month, day) ==
    LET y == year + ((month - 1) \div 12)
        m == ((month - 1) % 12) + 1
        before == gregorianMonthOffsets[m]
                    + (IF m > 2 /\ isGregorianLeapYear(y) THEN 1 ELSE 0)
        n == daysBeforeYear(y) + before + (day - 1)
    IN  (n + 1) % 7

GetDayOfWeek(year, month, day) ==
    LET g == JalaliToGregorian(year, month, day)
    IN  (timeDateWeekday(g.y, g.m, g.d) + 6) % 7

-----------------------------------------------------------------------------
(* Month grid.  fillWeek is the inner loop over dayOfWeek of one week and  *)
(* fillCalendar the outer loop over the weeks; day is the running counter. *)

RECURSIVE fillWeek(_, _, _, _, _, _)
fillWeek(week, dayOfWeek, day, row, nDays, firstDayOfWeek) ==
    IF dayOfWeek >= 7
    THEN [row |-> row, day |-> day]
    ELSE IF (week = 0 /\ dayOfWeek < firstDayOfWeek) \/ day > nDays
         THEN fillWeek(week, dayOfWeek + 1, day, Append(row, 0),
                       nDays, firstDayOfWeek)
         ELSE fillWeek(week, dayOfWeek + 1, day + 1, Append(row, day),
                       nDays, firstDayOfWeek)

RECURSIVE fillCalendar(_, _, _, _, _, _)
fillCalendar(week, weeks, day, cal, nDays, firstDayOfWeek) ==
    IF week >= weeks
    THEN cal
    ELSE LET r == fillWeek(week, 0, day, <<>>, nDays, firstDayOfWeek)
         IN  fillCalendar(week + 1, weeks, r.day, Append(cal, r.row),
                          nDays, firstDayOfWeek)

\* GetMonthCalendar with the week count taken as (N + f) / 7 + 1
GetMonthCalendar_ExtraWeek(year, month) ==
    LET nDays == GetDaysInMonth(year, month)
        firstDayOfWeek == GetDayOfWeek(year, month, 1)
        weeks == div(nDays + firstDayOfWeek, 7) + 1
    IN  fillCalendar(0, weeks, 1, <<>>, nDays, firstDayOfWeek)

GetMonthCalendar(year, month) ==
    LET nDays == GetDaysInMonth(year, month)
        firstDayOfWeek == GetDayOfWeek(year, month, 1)
        weeks == div(nDays + firstDayOfWeek + 6, 7)
    IN  fillCalendar(0, weeks, 1, <<>>, nDays, firstDayOfWeek)

-----------------------------------------------------------------------------
(* Valid dates.                                                            *)

gregorianMonthLength(y, m) ==
    IF m = 2
    THEN (IF isGregorianLeapYear(y) THEN 29 ELSE 28)
    ELSE IF m \in {4, 6, 9, 11} THEN 30 ELSE 31

GregorianDates ==
    { [y |-> y, m |-> m, d |-> d] :
        y \in FirstGYear..LastGYear, m \in 1..12, d \in 1..31 }

ValidGregorianDates ==
    { g \in GregorianDates : g.d <= gregorianMonthLength(g.y, g.m) }

-----------------------------------------------------------------------------
(* A caller that starts from a Gregorian date: it converts the date to     *)
(* Jalali, converts the result back, and asks for its day of the week.     *)

cmdIdle ==
    /\ yearFlag = 0 /\ monthFlag = 0
    /\ threeFlag = FALSE /\ fullYearFlag = FALSE
    /\ yearFlagSet = FALSE /\ monthFlagSet = FALSE
    /\ given = None /\ now = None /\ err = None /\ displayed = <<>>

windowIdle == windowStart = 0 /\ leapCount = -1

InitGregorian ==
    /\ pc = "gregorian"
    /\ gdate \in ValidGregorianDates
    /\ jdate = None /\ gback = None /\ jback = None
    /\ weekday = -1 /\ days = -1 /\ leap = None /\ calendar = None
    /\ windowIdle
    /\ cmdIdle

ToJalali ==
    /\ pc = "gregorian"
    /\ jdate' = GregorianToJalali(gdate.y, gdate.m, gdate.d)
    /\ pc' = "jalali"
    /\ UNCHANGED <<gdate, gback, jback, weekday, days, leap, calendar>>
    /\ UNCHANGED windowVars
    /\ UNCHANGED cmdVars

BackToGregorian ==
    /\ pc = "jalali"
    /\ gback' = JalaliToGregorian(jdate.Year, jdate.Month, jdate.Day)
    /\ pc' = "back"
    /\ UNCHANGED <<gdate, jdate, jback, weekday, days, leap, calendar>>
    /\ UNCHANGED windowVars
    /\ UNCHANGED cmdVars

DayOfWeekOfJalali ==
    /\ pc = "back"
    /\ weekday' = GetDayOfWeek(jdate.Year, jdate.Month, jdate.Day)
    /\ pc' = "done"
    /\ UNCHANGED <<gdate, jdate, gback, jback, days, leap, calendar>>
    /\ UNCHANGED windowVars
    /\ UNCHANGED cmdVars

NextGregorian == ToJalali \/ BackToGregorian \/ DayOfWeekOfJalali

SpecGregorian == InitGregorian /\ [][NextGregorian]_vars

-----------------------------------------------------------------------------
\* C1: converting a valid Gregorian date of the explored years to Jalali
\* and the result back to Gregorian returns the date that was given.
C1_RoundTripGregorian ==
    pc \in {"back", "done"} => gback = gdate

\* C3: GregorianToJalali(2025, 3, 21) is 1 Farvardin 1404 and
\* GregorianToJalali(2024, 3, 20) is 1 Farvardin 1403.
C3_KnownFixedPoints ==
    /\ (pc # "gregorian" /\ gdate = [y |-> 2025, m |-> 3, d |-> 21])
          => jdate = [Year |-> 1404, Month |-> 1, Day |-> 1]
    /\ (pc # "gregorian" /\ gdate = [y |-> 2024, m |-> 3, d |-> 20])
          => jdate = [Year |-> 1403, Month |-> 1, Day |-> 1]

C3_Witness ==
    /\ pc = "jalali"
    /\ gdate = [y |-> 2024, m |-> 3, d |-> 20]
    /\ jdate.Month = 1 /\ jdate.Day = 1

\* C4: the day of the week GetDayOfWeek gives for the Jalali form of a
\* Gregorian date is that date's weekday (Sunday = 0) rotated to a week
\* that starts on Saturday: (W + 6) mod 7.
C4_SaturdayFirstWeekday ==
    pc = "done" =>
        /\ weekday \in 0..6
        /\ weekday = (timeDateWeekday(gdate.y, gdate.m, gdate.d) + 6) % 7

-----------------------------------------------------------------------------
(* A caller that starts from a Jalali date: it converts the date to        *)
(* Gregorian, converts the result back, and asks for its day of the week.  *)

JalaliDates ==
    { [Year |-> y, Month |-> m, Day |-> d] :
        y \in FirstJYear..LastJYear, m \in 1..12, d \in 1..31 }

ValidJalaliDates ==
    { j \in JalaliDates : j.Day <= GetDaysInMonth(j.Year, j.Month) }

InitJalali ==
    /\ pc = "jalali"
    /\ jdate \in ValidJalaliDates
    /\ gdate = None /\ gback = None /\ jback = None
    /\ weekday = -1 /\ days = -1 /\ leap = None /\ calendar = None
    /\ windowIdle
    /\ cmdIdle

ToGregorian ==
    /\ pc = "jalali"
    /\ gback' = JalaliToGregorian(jdate.Year, jdate.Month, jdate.Day)
    /\ pc' = "gregorian"
    /\ UNCHANGED <<gdate, jdate, jback, weekday, days, leap, calendar>>
    /\ UNCHANGED windowVars
    /\ UNCHANGED cmdVars

BackToJalali ==
    /\ pc = "gregorian"
    /\ jback' = GregorianToJalali(gback.y, gback.m, gback.d)
    /\ pc' = "back"
    /\ UNCHANGED <<gdate, jdate, gback, weekday, days, leap, calendar>>
    /\ UNCHANGED windowVars
    /\ UNCHANGED cmdVars

DayOfWeek ==
    /\ pc = "back"
    /\ weekday' = GetDayOfWeek(jdate.Year, jdate.Month, jdate.Day)
    /\ pc' = "done"
    /\ UNCHANGED <<gdate, jdate, gback, jback, days, leap, calendar>>
    /\ UNCHANGED windowVars
    /\ UNCHANGED cmdVars

NextJalali == ToGregorian \/ BackToJalali \/ DayOfWeek

SpecJalali == InitJalali /\ [][NextJalali]_vars

-----------------------------------------------------------------------------
(* A caller that asks about one month: whether its year is leap, how many  *)
(* days it has, on which day of the week it starts, and for its grid.      *)

InitMonth ==
    /\ pc = "month"
    /\ jdate \in { [Year |-> y, Month |-> m, Day |-> 1] :
                     y \in FirstCalYear..LastCalYear, m \in 1..12 }
    /\ gdate = None /\ gback = None /\ jback = None
    /\ weekday = -1 /\ days = -1 /\ leap = None /\ calendar = None
    /\ windowIdle
    /\ cmdIdle

LeapYear ==
    /\ pc = "month"
    /\ leap' = IsJalaliLeapYear(jdate.Year)
    /\ pc' = "leap"
    /\ UNCHANGED <<gdate, jdate, gback, jback, weekday, days, calendar>>
    /\ UNCHANGED windowVars
    /\ UNCHANGED cmdVars

DaysInMonth ==
    /\ pc = "leap"
    /\ days' = GetDaysInMonth(jdate.Year, jdate.Month)
    /\ pc' = "days"
    /\ UNCHANGED <<gdate, jdate, gback, jback, weekday, leap, calendar>>
    /\ UNCHANGED windowVars
    /\ UNCHANGED cmdVars

FirstDayOfWeek ==
    /\ pc = "days"
    /\ weekday' = GetDayOfWeek(jdate.Year, jdate.Month, 1)
    /\ pc' = "first"
    /\ UNCHANGED <<gdate, jdate, gback, jback, days, leap, calendar>>
    /\ UNCHANGED windowVars
    /\ UNCHANGED cmdVars

MonthCalendar ==
    /\ pc = "first"
    /\ calendar' = GetMonthCalendar(jdate.Year, jdate.Month)
    /\ pc' = "grid"
    /\ UNCHANGED <<gdate, jdate, gback, jback, weekday, days, leap>>
    /\ UNCHANGED windowVars
    /\ UNCHANGED cmdVars

NextMonth == LeapYear \/ DaysInMonth \/ FirstDayOfWeek \/ MonthCalendar

SpecMonth == InitMonth /\ [][NextMonth]_vars

-----------------------------------------------------------------------------
(* A caller that counts the leap years among 33 consecutive Jalali years.  *)

leapYearsIn(first, last) ==
    Cardinality({ y \in first..last : IsJalaliLeapYear(y) })

\* the windows start before the first year of the break table
WindowStarts == (breaks[1] - 39)..LastWindowYear

InitWindow ==
    /\ pc = "window"
    /\ windowStart \in WindowStarts
    /\ leapCount = -1
    /\ gdate = None /\ jdate = None /\ gback = None /\ jback = None
    /\ weekday = -1 /\ days = -1 /\ leap = None /\ calendar = None
    /\ cmdIdle

CountLeapYears ==
    /\ pc = "window"
    /\ leapCount' = leapYearsIn(windowStart, windowStart + 32)
    /\ pc' = "counted"
    /\ UNCHANGED windowStart
    /\ UNCHANGED engineVars
    /\ UNCHANGED cmdVars

NextWindow == CountLeapYears

SpecWindow == InitWindow /\ [][NextWindow]_vars

-----------------------------------------------------------------------------
(* Properties of the Jalali-first caller.                                  *)

nextGregorianDay(g) ==
    IF g.d < gregorianMonthLength(g.y, g.m)
    THEN [y |-> g.y, m |-> g.m, d |-> g.d + 1]
    ELSE IF g.m < 12
         THEN [y |-> g.y, m |-> g.m + 1, d |-> 1]
         ELSE [y |-> g.y + 1, m |-> 1, d |-> 1]

\* C2: converting a valid Jalali date to Gregorian and the result back to
\* Jalali returns the date that was given.
C2_RoundTripJalali ==
    pc \in {"back", "done"} => jback = jdate

\* C6: the first day of Jalali year y + 1 converts to the Gregorian day
\* right after the one the last day of Esfand of year y converts to, the
\* last day being the 30th when IsJalaliLeapYear(y) and the 29th otherwise.
C6_EsfandLengthAgrees ==
    ( /\ pc \in {"gregorian", "back", "done"}
      /\ jdate.Month = esfandMonth
      /\ jdate.Day = (IF IsJalaliLeapYear(jdate.Year) THEN 30 ELSE 29) )
    => JalaliToGregorian(jdate.Year + 1, 1, 1) = nextGregorianDay(gback)

\* C8: the day seven days after a Jalali date, in the same month or, past
\* the end of the month, in the month that follows, has the same
\* GetDayOfWeek as the date.
C8_WeekdayCyclicity ==
    pc = "done" =>
        LET y == jdate.Year
            m == jdate.Month
            d == jdate.Day
            N == GetDaysInMonth(y, m)
        IN  IF d + 7 <= N
            THEN GetDayOfWeek(y, m, d + 7) = weekday
            ELSE IF m < 12
                 THEN GetDayOfWeek(y, m + 1, d + 7 - N) = weekday
                 ELSE GetDayOfWeek(y + 1, 1, d + 7 - N) = weekday

-----------------------------------------------------------------------------
(* Properties of the month caller.                                         *)

flatten(cal) == [k \in 1..(7 * Len(cal)) |-> cal[((k - 1) \div 7) + 1][((k - 1) % 7) + 1]]

\* C5: the grid of a month with N days that starts on day-of-week f has
\* ceil((N + f) / 7) rows of 7 slots; read row by row it is f zeros, the
\* days 1..N in order, and then fewer than 7 zeros.
C5_MonthGridLayout ==
    pc = "grid" =>
        LET N == days
            f == weekday
            rows == Len(calendar)
            flat == flatten(calendar)
        IN  /\ 7 * (rows - 1) < N + f
            /\ N + f <= 7 * rows
            /\ \A w \in 1..rows : Len(calendar[w]) = 7
            /\ \A k \in 1..(7 * rows) :
                  flat[k] = (IF k > f /\ k <= f + N THEN k - f ELSE 0)
            /\ 7 * rows - (N + f) < 7

C5_Witness ==
    /\ pc = "grid"
    /\ weekday = 6
    /\ days = 31
    /\ Len(calendar) = 6
    /\ calendar[1][7] = 1
    /\ calendar[6][2] = 31

\* C9: Esfand has 30 days exactly when IsJalaliLeapYear holds of the year
\* and 29 days otherwise; months 1..6 have 31 days and months 7..11 have 30
\* whatever the year.
C9_DaysInMonthRule ==
    pc \in {"days", "first", "grid"} =>
        /\ jdate.Month = 12 => ((days = 30) <=> (leap = TRUE))
        /\ (jdate.Month = 12 /\ leap = FALSE) => days = 29
        /\ jdate.Month \in 1..6 => days = 31
        /\ jdate.Month \in 7..11 => days = 30

C9_Witness ==
    /\ pc = "days"
    /\ jdate.Month = 12
    /\ leap = TRUE
    /\ days = 30

-----------------------------------------------------------------------------
(* Properties of the leap-year count.                                      *)

breakYears == { breaks[i] : i \in 1..Len(breaks) }

\* C7 as stated: a window of 33 consecutive years that holds no year of
\* the break table has exactly 8 leap years.
C7_EightLeapYearsPerWindow ==
    ( /\ pc = "counted"
      /\ breakYears \cap (windowStart..(windowStart + 32)) = {} )
    => leapCount = 8

\* C7 amended: a window of 33 consecutive years inside the range of the
\* break table, with no year of the break table in the window or among the
\* 5 years that follow it, has exactly 8 leap years.
C7_EightLeapYearsAwayFromBreaks ==
    ( /\ pc = "counted"
      /\ windowStart >= breaks[1]
      /\ windowStart + 32 < breaks[Len(breaks)]
      /\ breakYears \cap (windowStart..(windowStart + 37)) = {} )
    => leapCount = 8

C7_Witness ==
    /\ pc = "counted"
    /\ windowStart = 1390
    /\ leapCount = 8

-----------------------------------------------------------------------------
(* The scal command.  One run of runCalendar: the flags are those cobra    *)
(* parsed (an unset flag holds its default 0), time.Now() is some day, and *)
(* the display functions hand (year, month) pairs to GetMonthCalendar.     *)

minYear == 1
maxYear == 9999
minMonth == 1
maxMonth == 12
monthsInYear == 12

modeSingleMonth == 0
modeThreeMonths == 1
modeFullYear == 2

noError == "nil"

validateInput(year, month) ==
    IF month < minMonth \/ month > maxMonth
    THEN "month must be between 1 and 12"
    ELSE IF year < minYear \/ year > maxYear
         THEN "year must be between 1 and 9999"
         ELSE noError

\* runCalendar wraps the error: fmt.Errorf("validation error: %w", err)
validationError(verr) ==
    IF verr = "month must be between 1 and 12"
    THEN "validation error: month must be between 1 and 12"
    ELSE "validation error: year must be between 1 and 9999"

validationErrors ==
    { validationError("month must be between 1 and 12"),
      validationError("year must be between 1 and 9999") }

determineDisplayMode(full, three, yearSet, monthSet) ==
    IF full THEN modeFullYear
    ELSE IF three THEN modeThreeMonths
    ELSE IF yearSet /\ ~monthSet THEN modeFullYear
    ELSE modeSingleMonth

getAdjacentMonths(year, month) ==
    LET prevMonth == month - 1
        nextMonth == month + 1
    IN  [prevYear |-> IF prevMonth < 1 THEN year - 1 ELSE year,
         prevMonth |-> IF prevMonth < 1 THEN monthsInYear ELSE prevMonth,
         nextYear |-> IF nextMonth > monthsInYear THEN year + 1 ELSE year,
         nextMonth |-> IF nextMonth > monthsInYear THEN 1 ELSE nextMonth]

\* each display function, as the GetMonthCalendar calls it makes, in order
DisplayMonthTable(year, month) == << [year |-> year, month |-> month] >>

DisplayThreeMonthsTable(year, month) ==
    LET a == getAdjacentMonths(year, month)
    IN  << [year |-> a.prevYear, month |-> a.prevMonth],
           [year |-> year, month |-> month],
           [year |-> a.nextYear, month |-> a.nextMonth] >>

DisplayYearTable(year) ==
    [i \in 1..monthsInYear |-> [year |-> year, month |-> i]]

YearFlagValues ==
    ((minYear - 2)..(minYear + 1)) \cup {1404}
        \cup ((maxYear - 1)..(maxYear + 1))

MonthFlagValues == (minMonth - 2)..(maxMonth + 2)

NowDates ==
    { [y |-> 2024, m |-> 3, d |-> 19],
      [y |-> 2024, m |-> 3, d |-> 20],
      [y |-> 2026, m |-> 11, d |-> 6] }

InitCmd ==
    /\ pc = "cmd"
    /\ yearFlagSet \in BOOLEAN
    /\ monthFlagSet \in BOOLEAN
    /\ yearFlag \in (IF yearFlagSet THEN YearFlagValues ELSE {0})
    /\ monthFlag \in (IF monthFlagSet THEN MonthFlagValues ELSE {0})
    /\ threeFlag \in BOOLEAN
    /\ fullYearFlag \in BOOLEAN
    /\ given = [year |-> yearFlag, month |-> monthFlag]
    /\ now \in NowDates
    /\ err = None
    /\ displayed = <<>>
    /\ gdate = None /\ jdate = None /\ gback = None /\ jback = None
    /\ weekday = -1 /\ days = -1 /\ leap = None /\ calendar = None
    /\ windowIdle

runCalendar ==
    /\ pc = "cmd"
    /\ LET currentJalali == GregorianToJalali(now.y, now.m, now.d)
           year == IF yearFlag = 0 THEN currentJalali.Year ELSE yearFlag
           month == IF monthFlag = 0 THEN currentJalali.Month ELSE monthFlag
           verr == validateInput(year, month)
           mode == determineDisplayMode(fullYearFlag, threeFlag,
                                        yearFlagSet, monthFlagSet)
       IN  /\ yearFlag' = year
           /\ monthFlag' = month
           /\ IF verr # noError
              THEN /\ err' = validationError(verr)
                   /\ displayed' = displayed
              ELSE /\ err' = noError
                   /\ displayed' =
                        IF mode = modeFullYear
                        THEN DisplayYearTable(year)
                        ELSE IF mode = modeThreeMonths
                             THEN DisplayThreeMonthsTable(year, month)
                             ELSE DisplayMonthTable(year, month)
    /\ pc' = "ran"
    /\ UNCHANGED <<threeFlag, fullYearFlag, yearFlagSet, monthFlagSet,
                   given, now>>
    /\ UNCHANGED engineVars
    /\ UNCHANGED windowVars

NextCmd == runCalendar

SpecCmd == InitCmd /\ [][NextCmd]_vars

\* C10: a run given a year flag outside 1..9999 or a month flag outside
\* 1..12 returns a validation error and displays nothing, and every
\* (year, month) handed to GetMonthCalendar in a run has its year in
\* 1..9999 and its month in 1..12.
C10_ValidationBoundary ==
    pc = "ran" =>
        /\ ( \/ (yearFlagSet /\ given.year \notin minYear..maxYear)
             \/ (monthFlagSet /\ given.month \notin minMonth..maxMonth) )
           => (err \in validationErrors /\ displayed = <<>>)
        /\ \A i \in 1..Len(displayed) :
              /\ displayed[i].year \in minYear..maxYear
              /\ displayed[i].month \in minMonth..maxMonth

-----------------------------------------------------------------------------
(* A caller that converts a Gregorian date and the day after it: it        *)
(* converts the date to Jalali, asks for the length of the Jalali month    *)
(* it got, and converts the following Gregorian day.                       *)

jalaliSuccessor(j) ==
    IF j.Day < GetDaysInMonth(j.Year, j.Month)
    THEN [Year |-> j.Year, Month |-> j.Month, Day |-> j.Day + 1]
    ELSE IF j.Month < 12
         THEN [Year |-> j.Year, Month |-> j.Month + 1, Day |-> 1]
         ELSE [Year |-> j.Year + 1, Month |-> 1, Day |-> 1]

InitDayAfter ==
    /\ pc = "gregorian"
    /\ gdate \in { g \in [y : FirstDayAfterYear..LastDayAfterYear,
                          m : 1..12, d : 1..31] :
                     g.d <= gregorianMonthLength(g.y, g.m) }
    /\ jdate = None /\ gback = None /\ jback = None
    /\ weekday = -1 /\ days = -1 /\ leap = None /\ calendar = None
    /\ windowIdle
    /\ cmdIdle

LengthOfJalaliMonth ==
    /\ pc = "jalali"
    /\ days' = GetDaysInMonth(jdate.Year, jdate.Month)
    /\ pc' = "length"
    /\ UNCHANGED <<gdate, jdate, gback, jback, weekday, leap, calendar>>
    /\ UNCHANGED windowVars
    /\ UNCHANGED cmdVars

DayAfterToJalali ==
    /\ pc = "length"
    /\ LET n == nextGregorianDay(gdate)
       IN  jback' = GregorianToJalali(n.y, n.m, n.d)
    /\ pc' = "after"
    /\ UNCHANGED <<gdate, jdate, gback, weekday, days, leap, calendar>>
    /\ UNCHANGED windowVars
    /\ UNCHANGED cmdVars

NextDayAfter == ToJalali \/ LengthOfJalaliMonth \/ DayAfterToJalali

SpecDayAfter == InitDayAfter /\ [][NextDayAfter]_vars

\* C11: the Jalali date GregorianToJalali gives for a valid Gregorian date
\* has its month in 1..12 and its day in 1..GetDaysInMonth(Year, Month),
\* and the date it gives for the following Gregorian day is the Jalali
\* successor of that date.
C11_ValidConsecutiveJalaliDates ==
    pc = "after" =>
        /\ jdate.Month \in 1..12
        /\ jdate.Day \in 1..days
        /\ jback = jalaliSuccessor(jdate)

====
